---- MODULE Spec2Model ----
(***************************************************************************)
(* Model of the fleet autoscaler webhook (src/main.go): the configuration  *)
(* loaded once by getEnvVariables and the decision computed by             *)
(* handleAutoscale for each FleetAutoscaleReview posted to /scale.         *)
(*                                                                         *)
(* float64 values are IEEE 754 binary64: NaN, an infinity, or a sign, an   *)
(* odd mantissa below 2^53 and a binary exponent.  Products, quotients and *)
(* sums are rounded to the nearest float64, ties to even, as the hardware  *)
(* does; strconv.ParseFloat, ParseInt and Atoi follow the syntax and the   *)
(* range errors of the Go library.  Numbers too large for the integers of  *)
(* the checker are sequences of limbs.                                     *)
(***************************************************************************)
EXTENDS Integers, Sequences, FiniteSets, TLC

\* ------------------------------------------------------------------ bounds

\* Largest Status.Replicas / Status.AllocatedReplicas a review carries.
MaxFleet == 10

\* ------------------------------------------------------- program constants

Int32Max == 2147483647
Int32Min == (-Int32Max) - 1
CapPerReplica == 5
StatusOK == 200
StatusBadRequest == 400
StatusInternalServerError == 500

\* ------------------------------------------------------- evaluation order

\* The value of F at v, with v evaluated once.
Strict(v, F(_)) == CHOOSE r \in {F(z) : z \in {v}} : TRUE

Abs(i) == IF i < 0 THEN -i ELSE i
Min(a, b) == IF a < b THEN a ELSE b
Max(a, b) == IF a < b THEN b ELSE a

\* ------------------------------------------------------- natural numbers

\* A natural number of any size is the sequence of its limbs in base 2^15,
\* least significant first, without a leading zero limb (0 is <<>>). The
\* product of two limbs fits a 32-bit integer.
Base == 2^15

RECURSIVE NatLimbs(_)
NatLimbs(n) == IF n = 0 THEN <<>> ELSE <<n % Base>> \o NatLimbs(n \div Base)

Limb(x, i) == IF i <= Len(x) THEN x[i] ELSE 0

\* The state after the steps F(lo, _), ..., F(hi, _) from the state st, by
\* halving the range.
RECURSIVE FoldRange(_, _, _, _)
FoldRange(F(_, _), lo, hi, st) ==
    IF lo > hi THEN st
    ELSE IF lo = hi THEN F(lo, st)
    ELSE Strict(FoldRange(F, lo, (lo + hi) \div 2, st),
                LAMBDA half : FoldRange(F, (lo + hi) \div 2 + 1, hi, half))

\* x without its leading zero limbs.
Trim(x) ==
    Strict(x, LAMBDA a :
        IF \A i \in 1..Len(a) : a[i] = 0 THEN <<>>
        ELSE SubSeq(a, 1, CHOOSE n \in 1..Len(a) :
                              a[n] # 0 /\ \A j \in (n + 1)..Len(a) : a[j] = 0))

\* One limb of a sum, difference or product with the carry c: the limb and
\* the carry it leaves.
Carry(st, t) == [s |-> Append(st.s, t % Base), c |-> t \div Base]
Borrow(st, t) == [s |-> Append(st.s, (t + Base) % Base), c |-> IF t < 0 THEN 1 ELSE 0]
WithCarry(r) == IF r.c = 0 THEN r.s ELSE Append(r.s, r.c)

BAdd(x, y) ==
    Strict(<<x, y>>, LAMBDA p :
        WithCarry(FoldRange(LAMBDA i, st : Carry(st, Limb(p[1], i) + Limb(p[2], i) + st.c),
                            1, Max(Len(p[1]), Len(p[2])), [s |-> <<>>, c |-> 0])))
\* x - y for x >= y.
BSub(x, y) ==
    Strict(<<x, y>>, LAMBDA p :
        Trim(FoldRange(LAMBDA i, st : Borrow(st, p[1][i] - Limb(p[2], i) - st.c),
                       1, Len(p[1]), [s |-> <<>>, c |-> 0]).s))

\* -1, 0 or 1 as x <, =, > y.
BCmp(x, y) ==
    Strict(<<x, y>>, LAMBDA p :
        IF Len(p[1]) # Len(p[2]) THEN IF Len(p[1]) < Len(p[2]) THEN -1 ELSE 1
        ELSE IF p[1] = p[2] THEN 0
        ELSE Strict(CHOOSE n \in 1..Len(p[1]) :
                        /\ p[1][n] # p[2][n]
                        /\ \A j \in (n + 1)..Len(p[1]) : p[1][j] = p[2][j],
                    LAMBDA n : IF p[1][n] < p[2][n] THEN -1 ELSE 1))

\* x * k + c for limbs k and c.
MulSmall(x, k, c) ==
    Strict(<<x, k>>, LAMBDA p :
        IF p[2] = 0 THEN NatLimbs(c)
        ELSE WithCarry(FoldRange(LAMBDA i, st : Carry(st, p[1][i] * p[2] + st.c),
                                 1, Len(p[1]), [s |-> <<>>, c |-> c])))

\* x * Base^n.
ShiftLimbs(x, n) ==
    Strict(x, LAMBDA a : IF a = <<>> THEN a ELSE [i \in 1..n |-> 0] \o a)

\* x * y, one row for each limb of the shorter factor.
MulRows(x, y) ==
    FoldRange(LAMBDA j, acc : BAdd(acc, ShiftLimbs(MulSmall(x, y[j], 0), j - 1)),
              1, Len(y), <<>>)
BMul(x, y) ==
    Strict(<<x, y>>, LAMBDA p :
        IF Len(p[2]) = 1 THEN MulSmall(p[1], p[2][1], 0)
        ELSE IF Len(p[1]) = 1 THEN MulSmall(p[2], p[1][1], 0)
        ELSE IF Len(p[1]) < Len(p[2]) THEN MulRows(p[2], p[1])
        ELSE MulRows(p[1], p[2]))

RECURSIVE Bits(_)
Bits(n) == IF n = 0 THEN 0 ELSE 1 + Bits(n \div 2)
\* The number of binary digits of x.
BitLen(x) ==
    Strict(x, LAMBDA a : IF a = <<>> THEN 0 ELSE 15 * (Len(a) - 1) + Bits(a[Len(a)]))

\* x * 2^k and floor(x / 2^k).
ShiftLeft(x, k) ==
    Strict(<<x, k>>, LAMBDA p :
        ShiftLimbs(MulSmall(p[1], 2^(p[2] % 15), 0), p[2] \div 15))
ShiftRight(x, k) ==
    Strict(<<x, k \div 15, 2^(k % 15), 2^(15 - (k % 15))>>, LAMBDA p :
        Trim([i \in 1..(Len(p[1]) - p[2]) |->
                 (p[1][i + p[2]] \div p[3]) + (Limb(p[1], i + p[2] + 1) % p[3]) * p[4]]))
\* x mod 2^k = 0, and binary digit k of x (digit 0 is the lowest).
LowZero(x, k) ==
    Strict(<<x, k>>, LAMBDA p :
        /\ \A i \in 1..Min(Len(p[1]), p[2] \div 15) : p[1][i] = 0
        /\ Limb(p[1], p[2] \div 15 + 1) % 2^(p[2] % 15) = 0)
BitAt(x, k) == (Limb(x, k \div 15 + 1) \div 2^(k % 15)) % 2 = 1

RECURSIVE LowZeroBits(_)
LowZeroBits(n) == IF n % 2 = 1 THEN 0 ELSE 1 + LowZeroBits(n \div 2)
\* The number of zero binary digits below the lowest one of x # 0.
TrailingZeros(x) ==
    Strict(x, LAMBDA a :
        Strict(CHOOSE n \in 1..Len(a) : a[n] # 0 /\ \A j \in 1..(n - 1) : a[j] = 0,
               LAMBDA n : 15 * (n - 1) + LowZeroBits(a[n])))

\* floor(cur / vn) for cur < vn * Base, the top limb of vn being >= Base/2:
\* the quotient of the leading limbs is at most 2 too large.
RECURSIVE Fix(_, _, _)
Fix(cur, vn, q) ==
    IF BCmp(MulSmall(vn, q, 0), cur) > 0 THEN Fix(cur, vn, q - 1) ELSE q
QDigit(cur, vn) ==
    IF Len(cur) < Len(vn) THEN 0
    ELSE Strict(Min(Base - 1,
                    (Limb(cur, Len(vn) + 1) * Base + cur[Len(vn)]) \div vn[Len(vn)]),
                LAMBDA q : Fix(cur, vn, q))

\* One step of the long division by vn: the limb d joins the remainder of
\* the higher limbs and gives one more limb of the quotient.
DivStep(st, d, vn) ==
    Strict(IF st.r = <<>> /\ d = 0 THEN <<>> ELSE <<d>> \o st.r, LAMBDA cur :
    Strict(QDigit(cur, vn), LAMBDA qd :
        [q |-> <<qd>> \o st.q, r |-> BSub(cur, MulSmall(vn, qd, 0))]))

\* The division by a single limb v: each limb of u, from the highest down,
\* joins the remainder so far.
ShortDiv(u, v) ==
    FoldRange(LAMBDA j, st :
                  Strict(st.r * Base + u[Len(u) + 1 - j], LAMBDA t :
                      [q |-> <<t \div v>> \o st.q, r |-> t % v]),
              1, Len(u), [q |-> <<>>, r |-> 0])
\* The division by v of several limbs, its top limb brought to Base/2 or more.
LongDiv(u, v) ==
    Strict(15 - Bits(v[Len(v)]), LAMBDA s :
    Strict(<<ShiftLeft(u, s), ShiftLeft(v, s)>>, LAMBDA n :
        FoldRange(LAMBDA j, st : DivStep(st, n[1][Len(n[1]) + 1 - j], n[2]),
                  1, Len(n[1]), [q |-> <<>>, r |-> <<>>])))

\* floor(u / v) and whether the division leaves a remainder, for v # 0.
DivMod(u, v) ==
    Strict(<<u, v>>, LAMBDA p :
        IF Len(p[2]) = 1
        THEN Strict(ShortDiv(p[1], p[2][1]), LAMBDA res :
                 [q |-> Trim(res.q), inexact |-> res.r # 0])
        ELSE Strict(LongDiv(p[1], p[2]), LAMBDA res :
                 [q |-> Trim(res.q), inexact |-> res.r # <<>>]))

\* b^k for a limb b, by repeated squaring.
RECURSIVE BPow(_, _)
BPow(b, k) ==
    IF k = 0 THEN <<1>>
    ELSE Strict(BPow(b, k \div 2), LAMBDA h :
             IF k % 2 = 0 THEN BMul(h, h) ELSE MulSmall(BMul(h, h), b, 0))

\* -------------------------------------------------------------- float64

\* A float64 is NaN, an infinity, or (-1)^neg * m * 2^e with m a natural
\* number below 2^53 that is odd or zero (e = 0 for zero).
MantBits == 53
MinExp == -1074
MaxExp == 1024

Fin(neg, m, e) == [k |-> "fin", neg |-> neg, m |-> m, e |-> e]
Zero(neg) == Fin(neg, <<>>, 0)
Inf(neg) == [k |-> "inf", neg |-> neg, m |-> <<>>, e |-> 0]
PosInf == Inf(FALSE)
NegInf == Inf(TRUE)
NaN == [k |-> "nan", neg |-> FALSE, m |-> <<>>, e |-> 0]
IsNaN(x) == x.k = "nan"
IsFinite(x) == x.k = "fin"
IsZero(x) == x.k = "fin" /\ x.m = <<>>

\* m * 2^e for an m below 2^53 + 1: the float64, or the infinity past the
\* largest one.
Canon(neg, m, e) ==
    Strict(<<m, e>>, LAMBDA p :
        IF p[1] = <<>> THEN Zero(neg)
        ELSE IF BitLen(p[1]) + p[2] > MaxExp THEN Inf(neg)
        ELSE Strict(TrailingZeros(p[1]), LAMBDA z :
                 Fin(neg, ShiftRight(p[1], z), p[2] + z)))

\* The float64 nearest to (q + f) * 2^e, ties to even, where 0 <= f < 1 and
\* f # 0 iff sticky; q has at least 55 binary digits when sticky.
RoundDrop(neg, q, sticky, e, len, drop) ==
    IF drop <= 0 THEN Canon(neg, q, e)
    ELSE IF drop > len + 1 THEN Zero(neg)
    ELSE Strict(ShiftRight(q, drop), LAMBDA hi :
             IF BitAt(q, drop - 1)
                /\ (sticky \/ ~LowZero(q, drop - 1) \/ BitAt(hi, 0))
             THEN Canon(neg, BAdd(hi, <<1>>), e + drop)
             ELSE Canon(neg, hi, e + drop))
Round(neg, q, sticky, e) ==
    Strict(<<q, e>>, LAMBDA p :
        IF p[1] = <<>> THEN Zero(neg)
        ELSE Strict(BitLen(p[1]), LAMBDA len :
                 RoundDrop(neg, p[1], sticky, p[2], len,
                           Max(len - MantBits, MinExp - p[2]))))

\* The float64 nearest to p / q * 2^e for p, q # 0.
RoundRat(neg, p, q, e) ==
    Strict(<<p, q, e>>, LAMBDA a :
        IF a[2] = <<1>> THEN Round(neg, a[1], FALSE, a[3])
        ELSE Strict(MantBits + 3 - BitLen(a[1]) + BitLen(a[2]), LAMBDA k :
             Strict(IF k >= 0 THEN DivMod(ShiftLeft(a[1], k), a[2])
                    ELSE DivMod(a[1], ShiftLeft(a[2], -k)), LAMBDA d :
                 Round(neg, d.q, d.inexact, a[3] - k))))

\* float64(i) of an int32 i.
FromInt(i) ==
    IF i = Int32Min THEN Fin(TRUE, <<1>>, 31)
    ELSE Canon(i < 0, NatLimbs(Abs(i)), 0)

\* x * y, x / y and x + y of float64.
FMul(x, y) ==
    Strict(<<x, y>>, LAMBDA p :
        IF IsNaN(p[1]) \/ IsNaN(p[2]) THEN NaN
        ELSE IF (p[1].k = "inf" /\ IsZero(p[2])) \/ (IsZero(p[1]) /\ p[2].k = "inf")
        THEN NaN
        ELSE IF p[1].k = "inf" \/ p[2].k = "inf" THEN Inf(p[1].neg # p[2].neg)
        ELSE Round(p[1].neg # p[2].neg, BMul(p[1].m, p[2].m), FALSE, p[1].e + p[2].e))
FDiv(x, y) ==
    Strict(<<x, y>>, LAMBDA p :
        IF IsNaN(p[1]) \/ IsNaN(p[2]) THEN NaN
        ELSE IF (p[1].k = "inf" /\ p[2].k = "inf") \/ (IsZero(p[1]) /\ IsZero(p[2]))
        THEN NaN
        ELSE IF p[1].k = "inf" \/ IsZero(p[2]) THEN Inf(p[1].neg # p[2].neg)
        ELSE IF p[2].k = "inf" \/ IsZero(p[1]) THEN Zero(p[1].neg # p[2].neg)
        ELSE RoundRat(p[1].neg # p[2].neg, p[1].m, p[2].m, p[1].e - p[2].e))
FAddFinite(x, y, e) ==
    Strict(<<ShiftLeft(x.m, x.e - e), ShiftLeft(y.m, y.e - e)>>, LAMBDA a :
        IF x.neg = y.neg THEN Round(x.neg, BAdd(a[1], a[2]), FALSE, e)
        ELSE IF BCmp(a[1], a[2]) = 0 THEN Zero(FALSE)
        ELSE IF BCmp(a[1], a[2]) > 0 THEN Round(x.neg, BSub(a[1], a[2]), FALSE, e)
        ELSE Round(y.neg, BSub(a[2], a[1]), FALSE, e))
FAdd(x, y) ==
    Strict(<<x, y>>, LAMBDA p :
        IF IsNaN(p[1]) \/ IsNaN(p[2]) THEN NaN
        ELSE IF p[1].k = "inf"
        THEN IF p[2].k = "inf" /\ p[1].neg # p[2].neg THEN NaN ELSE p[1]
        ELSE IF p[2].k = "inf" THEN p[2]
        ELSE IF IsZero(p[1]) /\ IsZero(p[2]) THEN Zero(p[1].neg /\ p[2].neg)
        ELSE IF IsZero(p[1]) THEN p[2]
        ELSE IF IsZero(p[2]) THEN p[1]
        ELSE FAddFinite(p[1], p[2], Min(p[1].e, p[2].e)))

\* The float64 of the constant num/den (as Go rounds a constant like 0.7).
Flt(num, den) == FDiv(FromInt(num), FromInt(den))

\* |x| < |y| for finite x, y # 0.
LessMag(x, y) ==
    Strict(<<BitLen(x.m) + x.e, BitLen(y.m) + y.e, Min(x.e, y.e)>>, LAMBDA t :
        IF t[1] # t[2] THEN t[1] < t[2]
        ELSE BCmp(ShiftLeft(x.m, x.e - t[3]), ShiftLeft(y.m, y.e - t[3])) < 0)
\* -1, 0 or 1: the sign of a float64 that is not NaN (both zeros are 0).
SignF(x) == IF IsZero(x) THEN 0 ELSE IF x.neg THEN -1 ELSE 1

\* x < y, x > y, x >= y of float64 (every comparison with NaN is false).
FLt(x, y) ==
    Strict(<<x, y>>, LAMBDA p :
        IF IsNaN(p[1]) \/ IsNaN(p[2]) THEN FALSE
        ELSE IF SignF(p[1]) # SignF(p[2]) THEN SignF(p[1]) < SignF(p[2])
        ELSE IF SignF(p[1]) = 0 THEN FALSE
        ELSE IF p[1].k = "inf" \/ p[2].k = "inf"
        THEN IF p[1].neg THEN p[1].k = "inf" /\ p[2].k # "inf"
             ELSE p[2].k = "inf" /\ p[1].k # "inf"
        ELSE IF p[1].neg THEN LessMag(p[2], p[1]) ELSE LessMag(p[1], p[2]))
FGt(x, y) == FLt(y, x)
FGe(x, y) ==
    Strict(<<x, y>>, LAMBDA p : ~IsNaN(p[1]) /\ ~IsNaN(p[2]) /\ ~FLt(p[1], p[2]))

\* math.Ceil. A finite x with e < 0 is no integer, its m being odd.
Ceil(x) ==
    Strict(x, LAMBDA a :
        IF a.k # "fin" \/ a.e >= 0 THEN a
        ELSE IF a.neg THEN Canon(TRUE, ShiftRight(a.m, -a.e), 0)
        ELSE Canon(FALSE, BAdd(ShiftRight(a.m, -a.e), <<1>>), 0))

\* int32(f) of a float64 f. Go leaves the result implementation-dependent
\* when f is NaN, an infinity or outside int32: the amd64 build gives the
\* "integer indefinite" value, the arm64 build saturates (NaN gives 0).
GoArch == {"amd64", "arm64"}
Unrepresentable(x, arch) ==
    IF arch = "amd64" THEN Int32Min
    ELSE IF IsNaN(x) THEN 0
    ELSE IF x.neg THEN Int32Min ELSE Int32Max
\* The value of a natural number below 2^31.
ToNat(m) == Limb(m, 1) + Limb(m, 2) * Base + Limb(m, 3) * Base * Base
\* The integer part of |x| for a finite x below 2^32 in magnitude.
Trunc(x) == IF x.e < 0 THEN ShiftRight(x.m, -x.e) ELSE ShiftLeft(x.m, x.e)
ToInt32(x, arch) ==
    Strict(x, LAMBDA a :
        IF a.k # "fin" THEN Unrepresentable(a, arch)
        ELSE IF BitLen(a.m) + a.e > 32 THEN Unrepresentable(a, arch)
        ELSE Strict(Trunc(a), LAMBDA t :
                 IF BitLen(t) <= 31 THEN IF a.neg THEN -ToNat(t) ELSE ToNat(t)
                 ELSE IF a.neg /\ t = <<0, 0, 2>> THEN Int32Min
                 ELSE Unrepresentable(a, arch)))
\* -------------------------------------------------------------- strconv

\* A string is the sequence of its characters.
DecDigits == <<"0", "1", "2", "3", "4", "5", "6", "7", "8", "9">>
HexLetters == <<"a", "b", "c", "d", "e", "f">>
UpperLetters ==
    <<"A", "B", "C", "D", "E", "F", "G", "H", "I", "J", "K", "L", "M",
      "N", "O", "P", "Q", "R", "S", "T", "U", "V", "W", "X", "Y", "Z">>
LowerLetters ==
    <<"a", "b", "c", "d", "e", "f", "g", "h", "i", "j", "k", "l", "m",
      "n", "o", "p", "q", "r", "s", "t", "u", "v", "w", "x", "y", "z">>
IndexOf(c, t) ==
    IF \E i \in 1..Len(t) : t[i] = c THEN CHOOSE i \in 1..Len(t) : t[i] = c ELSE 0
Lower(c) ==
    IF IndexOf(c, UpperLetters) > 0 THEN LowerLetters[IndexOf(c, UpperLetters)] ELSE c
IsDigit(c) == IndexOf(c, DecDigits) > 0
IsHexLetter(c) == IndexOf(Lower(c), HexLetters) > 0
DigitVal(c) ==
    IF IsDigit(c) THEN IndexOf(c, DecDigits) - 1 ELSE 9 + IndexOf(Lower(c), HexLetters)

HasSign(s) == s # <<>> /\ s[1] \in {"+", "-"}
Unsigned(s) == IF HasSign(s) THEN Tail(s) ELSE s
IsNegative(s) == s # <<>> /\ s[1] = "-"

\* special: the length of the prefix of s that spells an infinity or NaN,
\* whatever the case of its letters (0: none).
RECURSIVE CommonPrefixLen(_, _, _)
CommonPrefixLen(s, t, i) ==
    IF i > Len(s) \/ i > Len(t) \/ Lower(s[i]) # t[i] THEN i - 1
    ELSE CommonPrefixLen(s, t, i + 1)
InfinityLen(s) ==
    Strict(CommonPrefixLen(Unsigned(s), <<"i", "n", "f", "i", "n", "i", "t", "y">>, 1),
           LAMBDA n : IF n = 8 THEN Len(s) - Len(Unsigned(s)) + 8
                      ELSE IF n >= 3 THEN Len(s) - Len(Unsigned(s)) + 3
                      ELSE 0)
NaNLen(s) == IF CommonPrefixLen(s, <<"n", "a", "n">>, 1) = 3 THEN 3 ELSE 0

\* underscoreOK: every underscore separates two digits (a base prefix counts
\* as a digit). saw is the kind of the character before, "no" once refused.
UnderscoreStep(c, hex, saw) ==
    IF saw = "no" THEN saw
    ELSE IF IsDigit(c) \/ (hex /\ IsHexLetter(c)) THEN "0"
    ELSE IF c = "_" THEN IF saw = "0" THEN "_" ELSE "no"
    ELSE IF saw = "_" THEN "no" ELSE "!"
HasBasePrefix(u) == Len(u) >= 2 /\ u[1] = "0" /\ Lower(u[2]) \in {"b", "o", "x"}
UnderscoreOK(s) ==
    Strict(Unsigned(s), LAMBDA u :
        FoldRange(LAMBDA i, saw : UnderscoreStep(u[i], HasBasePrefix(u) /\ Lower(u[2]) = "x", saw),
                  IF HasBasePrefix(u) THEN 3 ELSE 1, Len(u),
                  IF HasBasePrefix(u) THEN "0" ELSE "^") \notin {"_", "no"})

\* readFloat, the digits, in base 10 or 16: nd counts the digits after the
\* leading zeros, mant is their value, dp the position of the point among
\* them; i is the first character not read, where the reading stops.
DigitStep(c, j, base, st) ==
    IF st.i # j THEN st
    ELSE IF c = "_" THEN [st EXCEPT !.i = j + 1, !.underscores = TRUE]
    ELSE IF c = "."
    THEN IF st.sawdot THEN st ELSE [st EXCEPT !.i = j + 1, !.sawdot = TRUE, !.dp = st.nd]
    ELSE IF c = "0" /\ st.nd = 0
    THEN [st EXCEPT !.i = j + 1, !.sawdigits = TRUE, !.dp = @ - 1]
    ELSE IF IsDigit(c) \/ (base = 16 /\ IsHexLetter(c))
    THEN [st EXCEPT !.i = j + 1, !.sawdigits = TRUE, !.nd = @ + 1,
                    !.mant = MulSmall(@, base, DigitVal(c))]
    ELSE st
ScanDigits(s, i, base) ==
    FoldRange(LAMBDA j, st : DigitStep(s[j], j, base, st), i, Len(s),
              [i |-> i, sawdot |-> FALSE, sawdigits |-> FALSE, nd |-> 0,
               dp |-> 0, mant |-> <<>>, underscores |-> FALSE])

\* readFloat, the digits of the exponent: their value, which stops growing
\* at 10000, and the first position not read.
ExponentStep(c, j, st) ==
    IF st.i # j \/ ~(IsDigit(c) \/ c = "_") THEN st
    ELSE IF c = "_" \/ st.e >= 10000 THEN [st EXCEPT !.i = j + 1]
    ELSE [e |-> st.e * 10 + DigitVal(c), i |-> j + 1]
ScanExponent(s, i) ==
    FoldRange(LAMBDA j, st : ExponentStep(s[j], j, st), i, Len(s), [e |-> 0, i |-> i])

\* readFloat: [ok, neg, hex, mant, exp, i] with the value mant * 10^exp, or
\* mant * 2^exp when hex; i is the first position not read.
ReadExponent(s, st, hex, bits) ==
    Strict(IF st.sawdot THEN st.dp * bits ELSE st.nd * bits, LAMBDA dp :
        IF st.i <= Len(s) /\ Lower(s[st.i]) = (IF hex THEN "p" ELSE "e")
        THEN Strict(IF st.i + 1 <= Len(s) /\ s[st.i + 1] \in {"+", "-"}
                    THEN st.i + 2 ELSE st.i + 1, LAMBDA j :
                 IF j > Len(s) \/ ~IsDigit(s[j]) THEN [ok |-> FALSE]
                 ELSE Strict(ScanExponent(s, j), LAMBDA x :
                     [ok |-> TRUE, i |-> x.i, underscores |-> st.underscores \/
                                 \E n \in j..(x.i - 1) : s[n] = "_",
                      mant |-> st.mant,
                      dp |-> dp + (IF s[st.i + 1] = "-" THEN -x.e ELSE x.e),
                      exp |-> dp + (IF s[st.i + 1] = "-" THEN -x.e ELSE x.e)
                              - st.nd * bits]))
        ELSE IF hex THEN [ok |-> FALSE]
        ELSE [ok |-> TRUE, i |-> st.i, underscores |-> st.underscores,
              mant |-> st.mant, dp |-> dp, exp |-> dp - st.nd * bits])
ReadFloat(s) ==
    Strict(IF HasSign(s) THEN 2 ELSE 1, LAMBDA i :
    Strict(i + 2 < Len(s) + 1 /\ s[i] = "0" /\ Lower(s[i + 1]) = "x", LAMBDA hex :
    Strict(ScanDigits(s, IF hex THEN i + 2 ELSE i, IF hex THEN 16 ELSE 10), LAMBDA st :
        IF s = <<>> \/ i > Len(s) \/ ~st.sawdigits THEN [ok |-> FALSE]
        ELSE Strict(ReadExponent(s, st, hex, IF hex THEN 4 ELSE 1), LAMBDA r :
                 IF ~r.ok THEN r
                 ELSE IF r.underscores /\ ~UnderscoreOK(SubSeq(s, 1, r.i - 1))
                 THEN [ok |-> FALSE]
                 ELSE [r EXCEPT !.ok = (r.i = Len(s) + 1)] @@ [hex |-> hex]))))

\* The float64 nearest to mant * 10^exp, where dp is the number of digits of
\* mant before the decimal point: beyond 10^310 lies the infinity, below
\* 10^-330 zero.
Decimal(neg, mant, exp, dp) ==
    IF mant = <<>> THEN Zero(neg)
    ELSE IF dp > 310 THEN Inf(neg)
    ELSE IF dp < -330 THEN Zero(neg)
    ELSE IF exp >= 0 THEN Round(neg, BMul(mant, BPow(10, exp)), FALSE, 0)
    ELSE RoundRat(neg, mant, BPow(10, -exp), 0)

\* strconv.ParseFloat(s, 64): [err, v]. A value past the largest float64 is
\* a range error.
ParseFloat(s) ==
    IF InfinityLen(s) > 0
    THEN [err |-> InfinityLen(s) # Len(s), v |-> Inf(IsNegative(s))]
    ELSE IF ~HasSign(s) /\ NaNLen(s) > 0 THEN [err |-> Len(s) # 3, v |-> NaN]
    ELSE Strict(ReadFloat(s), LAMBDA r :
             IF ~r.ok THEN [err |-> TRUE, v |-> Zero(FALSE)]
             ELSE Strict(IF r.hex THEN Round(IsNegative(s), r.mant, FALSE, r.exp)
                         ELSE Decimal(IsNegative(s), r.mant, r.exp, r.dp), LAMBDA v :
                      [err |-> v.k = "inf", v |-> v]))

\* The natural number with the decimal digits s.
DecNat(s) == FoldRange(LAMBDA i, n : MulSmall(n, 10, DigitVal(s[i])), 1, Len(s), <<>>)
\* [+-]digits, the syntax of an integer in base 10.
IsInteger(s) ==
    Unsigned(s) # <<>> /\ \A i \in 1..Len(Unsigned(s)) : IsDigit(Unsigned(s)[i])
\* An integer of at most bits binary digits, from its sign and magnitude:
\* [err, neg, mag], err when it is out of range.
Ranged(neg, mag, bits) ==
    [err |-> BCmp(mag, ShiftLeft(<<1>>, bits - 1)) > (IF neg THEN 0 ELSE -1),
     neg |-> neg /\ mag # <<>>, mag |-> mag]

\* strconv.ParseInt(s, 10, 32): [err, v].
ParseInt(s) ==
    IF ~IsInteger(s) THEN [err |-> TRUE, v |-> 0]
    ELSE Strict(Ranged(IsNegative(s), DecNat(Unsigned(s)), 32),
                LAMBDA r : IF r.err THEN [err |-> TRUE, v |-> 0]
                           ELSE IF r.mag = <<0, 0, 2>> THEN [err |-> FALSE, v |-> Int32Min]
                           ELSE [err |-> FALSE,
                                 v |-> IF r.neg THEN -ToNat(r.mag) ELSE ToNat(r.mag)])
\* strconv.Atoi(s): [err, neg, mag], an int of 64 bits by sign and magnitude.
Atoi(s) ==
    IF ~IsInteger(s) THEN [err |-> TRUE, neg |-> FALSE, mag |-> <<>>]
    ELSE Ranged(IsNegative(s), DecNat(Unsigned(s)), 64)
\* int32(i) of an int i: its low 32 bits.
WrapInt32(i) ==
    Strict((IF Limb(i.mag, 3) % 4 < 2 THEN Limb(i.mag, 3) % 4
            ELSE (Limb(i.mag, 3) % 4) - 4) * Base * Base
               + Limb(i.mag, 2) * Base + Limb(i.mag, 1),
           LAMBDA w : IF i.neg /\ w # Int32Min THEN -w ELSE w)
\* ---------------------------------------------------------- configuration

\* The package-level variables with their compiled-in values.
DefaultConfig ==
    [replicaUpperThreshold |-> Flt(7, 10),
     replicaLowerThreshold |-> Flt(3, 10),
     scaleFactor |-> FromInt(2),
     minReplicasCount |-> 2,
     maxReplicasCount |-> 0,
     fixedReplicasOverrideEnabled |-> FALSE]

\* The hysteresis normalisation that ends getEnvVariables.
NormalizeLower(c) ==
    IF FGe(c.replicaLowerThreshold, FDiv(c.replicaUpperThreshold, c.scaleFactor))
    THEN [c EXCEPT !.replicaLowerThreshold =
                       FDiv(c.replicaUpperThreshold, FAdd(c.scaleFactor, FromInt(1)))]
    ELSE c

NormalizeMin(c) ==
    IF c.maxReplicasCount > 0 /\ c.minReplicasCount > c.maxReplicasCount
    THEN [c EXCEPT !.minReplicasCount = c.maxReplicasCount]
    ELSE c

\* The reads of getEnvVariables, in its order; e is the environment (an unset
\* variable reads as the empty string). A value that parses but fails the
\* range test keeps the variable as it was.
ReadScaleFactor(c, e) ==
    IF e.SCALE_FACTOR = <<>> THEN c
    ELSE Strict(ParseFloat(e.SCALE_FACTOR).v, LAMBDA factor :
             IF FGt(factor, FromInt(1)) THEN [c EXCEPT !.scaleFactor = factor] ELSE c)
ReadUpscaleTrigger(c, e) ==
    IF e.REPLICA_UPSCALE_TRIGGER = <<>> THEN c
    ELSE Strict(ParseFloat(e.REPLICA_UPSCALE_TRIGGER).v, LAMBDA replicaUpTrigger :
             IF FGt(replicaUpTrigger, Flt(1, 10))
             THEN [c EXCEPT !.replicaUpperThreshold = replicaUpTrigger] ELSE c)
ReadDownscaleTrigger(c, e) ==
    IF e.REPLICA_DOWNSCALE_TRIGGER = <<>> THEN c
    ELSE Strict(ParseFloat(e.REPLICA_DOWNSCALE_TRIGGER).v, LAMBDA replicaDownTrigger :
             IF FLt(replicaDownTrigger, FDiv(c.replicaUpperThreshold, c.scaleFactor))
             THEN [c EXCEPT !.replicaLowerThreshold = replicaDownTrigger] ELSE c)
ReadMinReplicas(c, e) ==
    IF e.MIN_REPLICAS_COUNT = <<>> THEN c
    ELSE Strict(ParseInt(e.MIN_REPLICAS_COUNT).v, LAMBDA minReplicas :
             IF minReplicas >= 0 THEN [c EXCEPT !.minReplicasCount = minReplicas] ELSE c)
ReadMaxReplicas(c, e) ==
    IF e.MAX_REPLICAS_COUNT = <<>> THEN c
    ELSE Strict(ParseInt(e.MAX_REPLICAS_COUNT).v, LAMBDA maxReplicas :
             IF maxReplicas >= 0 THEN [c EXCEPT !.maxReplicasCount = maxReplicas] ELSE c)
ReadFixedReplicas(c, e) ==
    [c EXCEPT !.fixedReplicasOverrideEnabled =
        IF e.FIXED_REPLICAS # <<>> THEN e.FIXED_REPLICAS = <<"t", "r", "u", "e">> ELSE @]

\* A set variable fails to parse: getEnvVariables ends the process (os.Exit(1)).
ParseFails(e) ==
    \/ e.SCALE_FACTOR # <<>> /\ ParseFloat(e.SCALE_FACTOR).err
    \/ e.REPLICA_UPSCALE_TRIGGER # <<>> /\ ParseFloat(e.REPLICA_UPSCALE_TRIGGER).err
    \/ e.REPLICA_DOWNSCALE_TRIGGER # <<>> /\ ParseFloat(e.REPLICA_DOWNSCALE_TRIGGER).err
    \/ e.MIN_REPLICAS_COUNT # <<>> /\ ParseInt(e.MIN_REPLICAS_COUNT).err
    \/ e.MAX_REPLICAS_COUNT # <<>> /\ ParseInt(e.MAX_REPLICAS_COUNT).err

\* The configuration getEnvVariables leaves when every set variable parses.
GetEnvVariables(e) ==
    Strict(ReadScaleFactor(DefaultConfig, e), LAMBDA c1 :
    Strict(ReadUpscaleTrigger(c1, e), LAMBDA c2 :
    Strict(ReadDownscaleTrigger(c2, e), LAMBDA c3 :
    Strict(ReadFixedReplicas(ReadMaxReplicas(ReadMinReplicas(c3, e), e), e), LAMBDA c6 :
        NormalizeMin(NormalizeLower(c6))))))

\* ------------------------------------------------------------ the handler

NoAnnotation == [present |-> FALSE, value |-> <<>>]
NoCounter == [present |-> FALSE, count |-> 0, capacity |-> 0]

\* The reply written for a body that produced no decision.
ErrorReply(code) ==
    [status |-> code, decided |-> FALSE, scale |-> FALSE, replicas |-> 0, uid |-> "",
     aborted |-> FALSE]

\* The handler panics: net/http recovers, logs, and closes the connection
\* without a status or a body; the server goes on serving.
Aborted ==
    [status |-> 0, decided |-> FALSE, scale |-> FALSE, replicas |-> 0, uid |-> "",
     aborted |-> TRUE]

\* The review written back with faResp as its Response.
ReviewReply(req, faResp) ==
    Strict(faResp, LAMBDA r :
        [status |-> StatusOK, decided |-> TRUE, scale |-> r.scale,
         replicas |-> r.replicas, uid |-> req.uid, aborted |-> FALSE])

\* Mutant of FinalClamp: the clamp left out.
FinalClampOmitted(c, faResp) == faResp

\* "Enforce MAX_REPLICAS_COUNT for fixed override as well"
FinalClamp(c, faResp) ==
    Strict(faResp, LAMBDA r :
        IF c.maxReplicasCount > 0 /\ r.replicas > c.maxReplicasCount
        THEN [scale |-> TRUE, replicas |-> c.maxReplicasCount]
        ELSE r)

ClampMin(c, v) ==
    Strict(v, LAMBDA x : IF x < c.minReplicasCount THEN c.minReplicasCount ELSE x)
ClampMax(c, v) ==
    Strict(v, LAMBDA x :
        IF c.maxReplicasCount > 0 /\ x > c.maxReplicasCount THEN c.maxReplicasCount ELSE x)

\* The branch taken when Counters["rooms"] has Capacity > 0 and Replicas > 0;
\* it writes its review itself, before the final clamp.
CapacityDecision(c, req, u) ==
    Strict(ClampMax(c, ClampMin(c,
               ToInt32(Ceil(FDiv(FromInt(req.counter.count), FromInt(CapPerReplica))), u))),
           LAMBDA desired :
    Strict(ClampMax(c, ClampMin(c,
               ToInt32(Ceil(FMul(FromInt(desired), c.scaleFactor)), u))),
           LAMBDA next :
        IF next # req.replicas THEN [scale |-> TRUE, replicas |-> next]
        ELSE [scale |-> FALSE, replicas |-> req.replicas]))

AllocatedPercent(req) == FDiv(FromInt(req.allocated), FromInt(req.replicas))

ScaleUp(c, req, u) ==
    ClampMax(c, ToInt32(Ceil(FMul(FromInt(req.replicas), c.scaleFactor)), u))

\* Mutant of ScaleDown: the quotient truncated instead of rounded up.
ScaleDownTruncated(c, req, u) ==
    ToInt32(FDiv(FromInt(req.replicas), c.scaleFactor), u)

ScaleDown(c, req, u) ==
    ToInt32(Ceil(FDiv(FromInt(req.replicas), c.scaleFactor)), u)

\* Mutants of ThresholdDecision: the up-scale tested against the lower
\* threshold, and the down-scale tested against the upper threshold.
ThresholdDecisionUpAtLower(c, req, u) ==
    Strict(AllocatedPercent(req), LAMBDA allocatedPercent :
        IF FGt(allocatedPercent, c.replicaLowerThreshold)
        THEN [scale |-> TRUE, replicas |-> ScaleUp(c, req, u)]
        ELSE IF FLt(allocatedPercent, c.replicaLowerThreshold)
                /\ req.replicas > c.minReplicasCount
        THEN [scale |-> TRUE, replicas |-> ScaleDown(c, req, u)]
        ELSE [scale |-> FALSE, replicas |-> req.replicas])
ThresholdDecisionDownAtUpper(c, req, u) ==
    Strict(AllocatedPercent(req), LAMBDA allocatedPercent :
        IF FGt(allocatedPercent, c.replicaUpperThreshold)
        THEN [scale |-> TRUE, replicas |-> ScaleUp(c, req, u)]
        ELSE IF FLt(allocatedPercent, c.replicaUpperThreshold)
                /\ req.replicas > c.minReplicasCount
        THEN [scale |-> TRUE, replicas |-> ScaleDown(c, req, u)]
        ELSE [scale |-> FALSE, replicas |-> req.replicas])

\* The utilization-threshold branch.
ThresholdDecision(c, req, u) ==
    Strict(AllocatedPercent(req), LAMBDA allocatedPercent :
        IF FGt(allocatedPercent, c.replicaUpperThreshold)
        THEN [scale |-> TRUE, replicas |-> ScaleUp(c, req, u)]
        ELSE IF FLt(allocatedPercent, c.replicaLowerThreshold)
                /\ req.replicas > c.minReplicasCount
        THEN [scale |-> TRUE, replicas |-> ScaleDown(c, req, u)]
        ELSE [scale |-> FALSE, replicas |-> req.replicas])

CapacityApplies(req) ==
    req.counter.present /\ req.counter.capacity > 0 /\ req.replicas > 0

\* Mutant of Mode: an enabled override that finds no annotation falls through
\* to the capacity counter and the thresholds.
ModeFallsThrough(c, req) ==
    IF ~req.valid THEN "malformed"
    ELSE IF ~req.request THEN "panic"
    ELSE IF c.fixedReplicasOverrideEnabled /\ req.annotation.present THEN "fixed"
    ELSE IF req.replicas # 0
    THEN IF CapacityApplies(req) THEN "capacity" ELSE "threshold"
    ELSE "none"

\* The branch of handleAutoscale that decides the body req under c. A body
\* that decodes without a "request" leaves faReq.Request nil, and reading
\* its Status panics.
Mode(c, req) ==
    IF ~req.valid THEN "malformed"
    ELSE IF ~req.request THEN "panic"
    ELSE IF c.fixedReplicasOverrideEnabled
    THEN IF req.annotation.present THEN "fixed" ELSE "none"
    ELSE IF req.replicas # 0
    THEN IF CapacityApplies(req) THEN "capacity" ELSE "threshold"
    ELSE "none"

\* The fixed override: the annotation is an int of 64 bits, refused when it
\* does not parse or is negative, and converted to the int32 of the reply.
FixedDecision(c, req) ==
    Strict(Atoi(req.annotation.value), LAMBDA replicas :
        IF replicas.err \/ replicas.neg THEN ErrorReply(StatusBadRequest)
        ELSE ReviewReply(req, FinalClamp(c, [scale |-> TRUE,
                                             replicas |-> WrapInt32(replicas)])))

\* handleAutoscale: the reply to the body req under configuration c, in the
\* build for architecture u.
Autoscale(c, req, u) ==
    Strict(Mode(c, req), LAMBDA mode :
        CASE mode = "malformed" -> ErrorReply(StatusInternalServerError)
          [] mode = "panic" -> Aborted
          [] mode = "fixed" -> FixedDecision(c, req)
          [] mode = "capacity" -> ReviewReply(req, CapacityDecision(c, req, u))
          [] mode = "threshold" ->
                ReviewReply(req, FinalClamp(c, ThresholdDecision(c, req, u)))
          [] OTHER ->
                ReviewReply(req, FinalClamp(c, [scale |-> FALSE, replicas |-> req.replicas])))

\* ------------------------------------------------------------ the inputs

\* Values of the environment variables (<<>>: unset or empty).
EnvScaleFactor ==
    {<<>>, <<"2", ".", "5">>, <<"2", ".", "2">>, <<"I", "n", "f">>, <<"x">>}
EnvUpscaleTrigger == {<<>>, <<"0", ".", "9">>, <<"0", ".", "0", "5">>}
EnvDownscaleTrigger ==
    {<<>>, <<"0", ".", "3", "5">>, <<"-", "5", "e", "-", "1">>, <<"-">>}
EnvMinReplicas == {<<>>, <<"4">>, <<"-", "1">>}
EnvMaxReplicas == {<<>>, <<"3">>, <<"m", "a", "x">>}
EnvFixedReplicas == {<<>>, <<"t", "r", "u", "e">>, <<"f", "a", "l", "s", "e">>}

\* The environments the process is started under. The override leaves the
\* thresholds and the scale factor unread, so the environments that enable it
\* leave them unset.
Environments ==
    {e \in [SCALE_FACTOR : EnvScaleFactor,
            REPLICA_UPSCALE_TRIGGER : EnvUpscaleTrigger,
            REPLICA_DOWNSCALE_TRIGGER : EnvDownscaleTrigger,
            MIN_REPLICAS_COUNT : EnvMinReplicas,
            MAX_REPLICAS_COUNT : EnvMaxReplicas,
            FIXED_REPLICAS : EnvFixedReplicas] :
        e.FIXED_REPLICAS = <<"t", "r", "u", "e">> =>
            /\ e.SCALE_FACTOR = <<>>
            /\ e.REPLICA_UPSCALE_TRIGGER = <<>>
            /\ e.REPLICA_DOWNSCALE_TRIGGER = <<>>}

\* Values of Request.Annotations["fixedReplicas"] and Status.Counters["rooms"].
Annotations ==
    {NoAnnotation} \cup
    {[present |-> TRUE, value |-> v] :
        v \in {<<"5">>, <<"-", "1">>, <<"3", "x">>,
               <<"4", "2", "9", "4", "9", "6", "7", "2", "9", "9">>,
               <<"2", "1", "4", "7", "4", "8", "3", "6", "4", "8">>}}
Counters ==
    {NoCounter} \cup
    {[present |-> TRUE, count |-> k[1], capacity |-> k[2]] :
        k \in {<<125, 130>>, <<12, 0>>}}

\* A body that does not decode, and a body that decodes without a request
\* (such as {}).
MalformedBody ==
    [valid |-> FALSE, request |-> FALSE, uid |-> "", replicas |-> 0, allocated |-> 0,
     annotation |-> NoAnnotation, counter |-> NoCounter]
EmptyReview == [MalformedBody EXCEPT !.valid = TRUE]

Review(r, a, an, ct) ==
    [valid |-> TRUE, request |-> TRUE, uid |-> "fleet-1", replicas |-> r,
     allocated |-> a, annotation |-> an, counter |-> ct]
\* The reviews without the annotation: a fleet reports at most MaxFleet
\* replicas, of which some are allocated, and maybe a counter.
StatusReviews ==
    {Review(r, a, NoAnnotation, ct) : r \in 0..MaxFleet, a \in 0..MaxFleet, ct \in Counters}
\* The reviews with the annotation, of a fleet that is idle or fully
\* allocated; one annotation also comes with a usable counter.
AnnotatedReviews ==
    {b \in {Review(r, a, an, ct) :
                r \in 0..MaxFleet, a \in 0..MaxFleet,
                an \in Annotations \ {NoAnnotation}, ct \in Counters} :
        /\ b.allocated \in {0, b.replicas}
        /\ b.counter.present => b.annotation.value = <<"5">> /\ b.counter.capacity > 0}
Reviews == StatusReviews \cup AnnotatedReviews
Bodies == {MalformedBody, EmptyReview} \cup {b \in Reviews : b.allocated <= b.replicas}

\* --------------------------------------------------------------- the state

VARIABLES
    pc,        \* "boot", "serving" or "exited"
    config,    \* the package-level configuration variables
    review,    \* the body of the last request to /scale (NoBody: none yet)
    reply,     \* the reply written to it
    prev       \* the exchange before it, when this review follows it up

vars == <<pc, config, review, reply, prev>>

NoBody == [MalformedBody EXCEPT !.uid = "none"]
NoReply ==
    [status |-> 0, decided |-> FALSE, scale |-> FALSE, replicas |-> 0, uid |-> "",
     aborted |-> FALSE]
NoExchange == [review |-> NoBody, reply |-> NoReply]

Init ==
    /\ pc = "boot"
    /\ config = DefaultConfig
    /\ review = NoBody
    /\ reply = NoReply
    /\ prev = NoExchange

\* main: getEnvVariables, then the server listens (or the process exits).
Start(e) ==
    /\ pc = "boot"
    /\ IF ParseFails(e)
       THEN pc' = "exited" /\ config' = config
       ELSE pc' = "serving" /\ config' = GetEnvVariables(e)
    /\ UNCHANGED <<review, reply, prev>>

\* handleHealth: 200 "Healthy", whatever the state, which it leaves alone.
HandleHealth ==
    /\ pc = "serving"
    /\ UNCHANGED vars

\* handleAutoscale on the body req.
HandleAutoscale(req, u) ==
    /\ pc = "serving"
    /\ review' = req
    /\ reply' = Autoscale(config, req, u)
    /\ UNCHANGED <<pc, config>>

\* The orchestrator posts the review of a fleet it starts to sync.
PostReview(req, u) ==
    /\ reply = NoReply
    /\ HandleAutoscale(req, u)
    /\ prev' = NoExchange

\* The orchestrator applies a decision that asks to scale: it sets the fleet
\* to the replicas of the decision and posts the next review of the same
\* fleet, everything else unchanged. (A decision with scale = false leaves the
\* fleet, and so the next review, as they are.)
FollowUp(u) ==
    /\ reply.decided
    /\ reply.scale
    /\ HandleAutoscale([review EXCEPT !.replicas = reply.replicas], u)
    /\ prev' = [review |-> review, reply |-> reply]

\* The orchestrator stops syncing the fleet.
EndSync ==
    /\ pc = "serving"
    /\ reply # NoReply
    /\ review' = NoBody
    /\ reply' = NoReply
    /\ prev' = NoExchange
    /\ UNCHANGED <<pc, config>>

\* The process is started once, under some environment.
Boot == pc = "boot" /\ \E e \in Environments : Start(e)

\* A fleet that is not being synced gets its first review.
BeginSync == reply = NoReply /\ \E req \in Bodies, u \in GoArch : PostReview(req, u)

Next ==
    \/ Boot
    \/ HandleHealth
    \/ BeginSync
    \/ \E u \in GoArch : FollowUp(u)
    \/ EndSync

Spec == Init /\ [][Next]_vars

\* The reviews that the utilization thresholds decide when the override is
\* disabled: at least one replica, no usable counter (the annotation is read
\* only by the override, so it is left out).
ThresholdReviews ==
    {b \in Reviews :
        /\ b.allocated <= b.replicas /\ b.replicas >= 1
        /\ ~b.annotation.present /\ ~CapacityApplies(b)}

\* The orchestrator posts the review of a fleet that the utilization
\* thresholds decide, and then only follows it up.
PostThresholdReview(req, u) ==
    /\ PostReview(req, u)
    /\ Mode(config, req) = "threshold"

BeginThresholdSync ==
    reply = NoReply /\ \E req \in ThresholdReviews, u \in GoArch : PostThresholdReview(req, u)

NextConverge ==
    \/ Boot
    \/ BeginThresholdSync
    \/ \E u \in GoArch : FollowUp(u)

\* The server answers every request, and the orchestrator keeps polling.
SpecConverge == Init /\ [][NextConverge]_vars /\ WF_vars(NextConverge)

\* ---------------------------------------------------------------- claims

Decided == pc = "serving" /\ reply.decided
ModeNow == Mode(config, review)
HasMax == config.maxReplicasCount > 0
CapMax(v) == IF HasMax /\ v > config.maxReplicasCount THEN config.maxReplicasCount ELSE v
Pct == AllocatedPercent(review)
AboveUpper == FGt(Pct, config.replicaUpperThreshold)
BelowLower == FLt(Pct, config.replicaLowerThreshold)
FixedValue == WrapInt32(Atoi(review.annotation.value))

\* C1: whenever a decision is returned and maxReplicasCount > 0, the returned
\* replicas is at most maxReplicasCount.
C1_MaxClamp == Decided /\ HasMax => reply.replicas <= config.maxReplicasCount
C1_Witness ==
    /\ Decided /\ HasMax /\ ModeNow = "fixed"
    /\ FixedValue > config.maxReplicasCount
    /\ reply.replicas = config.maxReplicasCount

\* C2: whenever the capacity-counter or the utilization-threshold mode returns
\* scale = true, the returned replicas is at least minReplicasCount.
C2_MinClamp ==
    Decided /\ ModeNow \in {"capacity", "threshold"} /\ reply.scale
        => reply.replicas >= config.minReplicasCount

\* C3 as stated: every request with currentReplicas > 0 whose allocated
\* fraction lies strictly between the two thresholds gets scale = false and
\* replicas = currentReplicas.
C3_Original ==
    Decided /\ review.replicas > 0 /\ ~AboveUpper /\ ~BelowLower
        /\ FLt(Pct, config.replicaUpperThreshold)
        /\ FGt(Pct, config.replicaLowerThreshold)
        => ~reply.scale /\ reply.replicas = review.replicas
\* C3 as amended: the same for every request that the utilization-threshold
\* mode decides and whose currentReplicas does not exceed a set maximum.
C3_NoOp ==
    Decided /\ ModeNow = "threshold" /\ review.replicas > 0
        /\ FLt(Pct, config.replicaUpperThreshold)
        /\ FGt(Pct, config.replicaLowerThreshold)
        /\ (HasMax => review.replicas <= config.maxReplicasCount)
        => ~reply.scale /\ reply.replicas = review.replicas
C3_Witness ==
    /\ Decided /\ ModeNow = "threshold" /\ review.replicas > 0
    /\ FLt(Pct, config.replicaUpperThreshold)
    /\ FGt(Pct, config.replicaLowerThreshold)
    /\ HasMax /\ review.replicas <= config.maxReplicasCount
    /\ ~reply.scale /\ reply.replicas = review.replicas

\* C4: when a threshold-mode review with fraction above the upper threshold
\* was answered with an up-scale to N, the next review of the same fleet with
\* N replicas and the same allocated count does not meet the down-scale
\* condition (fraction below the lower threshold and N > minReplicasCount).
UpScaled ==
    /\ prev.reply.decided
    /\ Mode(config, prev.review) = "threshold"
    /\ FGt(AllocatedPercent(prev.review), config.replicaUpperThreshold)
    /\ review = [prev.review EXCEPT !.replicas = prev.reply.replicas]
C4_AntiFlap ==
    pc = "serving" /\ UpScaled
        => ~(BelowLower /\ review.replicas > config.minReplicasCount)

\* The returned replicas is the integer the annotation spells.
FixedAsWritten ==
    reply.replicas >= 0 /\ NatLimbs(reply.replicas) = Atoi(review.annotation.value).mag
\* C5: in every decision, scale is true exactly when the returned replicas
\* differs from currentReplicas; on the fixed-override path with a valid
\* annotation value v the returned replicas is v.
C5_ScaleIffChanged ==
    Decided =>
        /\ reply.scale <=> reply.replicas # review.replicas
        /\ ModeNow = "fixed" => FixedAsWritten

\* The reply that the precedence of C6 as stated gives: an override that is
\* enabled but finds no annotation does not apply, so the capacity counter or
\* the thresholds decide.
StatedReply(u) ==
    IF config.fixedReplicasOverrideEnabled /\ ~review.annotation.present
    THEN Autoscale([config EXCEPT !.fixedReplicasOverrideEnabled = FALSE], review, u)
    ELSE Autoscale(config, review, u)
\* C6 as stated: the fixed override applies only when enabled with the
\* annotation present; whenever it does not apply (disabled, or enabled with no
\* annotation) the capacity counter decides if usable, else the thresholds.
C6_Original == Decided => \E u \in GoArch : reply = StatedReply(u)

NoScale == [scale |-> FALSE, replicas |-> review.replicas]
VaryAllocated == {[review EXCEPT !.allocated = a] : a \in 0..MaxFleet}
VaryStatus ==
    {[review EXCEPT !.allocated = a, !.counter = ct] : a \in 0..MaxFleet, ct \in Counters}
\* C6 as amended: (1) the fixed override decides when it is enabled and the
\* annotation is present; when it is enabled and the annotation is absent no
\* mode is evaluated and the reply is no scale, up to the final clamp; (2) the
\* capacity counter decides when the override is disabled, currentReplicas > 0
\* and a rooms counter with capacity > 0 is present; (3) the thresholds decide
\* when the override is disabled, (2) does not apply and currentReplicas # 0;
\* otherwise no scale. Under (1) the reply depends neither on the counters nor
\* on allocatedReplicas, under (2) not on allocatedReplicas.
C6_Precedence ==
    pc = "serving" /\ reply # NoReply /\ review.valid /\ review.request =>
        IF config.fixedReplicasOverrideEnabled
        THEN IF review.annotation.present
             THEN /\ reply.decided => reply.scale /\ reply.replicas = CapMax(FixedValue)
                  /\ \A b \in VaryStatus, u \in GoArch : Autoscale(config, b, u) = reply
             ELSE reply = ReviewReply(review, FinalClamp(config, NoScale))
        ELSE IF review.replicas > 0 /\ review.counter.present /\ review.counter.capacity > 0
        THEN /\ \E u \in GoArch : reply = ReviewReply(review, CapacityDecision(config, review, u))
             /\ \A b \in VaryAllocated : \E u \in GoArch : Autoscale(config, b, u) = reply
        ELSE IF review.replicas # 0
        THEN \E u \in GoArch :
                reply = ReviewReply(review, FinalClamp(config, ThresholdDecision(config, review, u)))
        ELSE reply = ReviewReply(review, FinalClamp(config, NoScale))
C6_Witness ==
    /\ Decided /\ config.fixedReplicasOverrideEnabled /\ ~review.annotation.present
    /\ review.replicas > 0 /\ review.counter.present /\ review.counter.capacity > 0
    /\ review.allocated = review.replicas
    /\ ~reply.scale /\ reply.replicas = review.replicas

\* The result of the threshold mode as C7 states it, for the build u.
StatedThreshold(u) ==
    IF AboveUpper
    THEN [scale |-> TRUE,
          replicas |-> CapMax(ToInt32(Ceil(FMul(FromInt(review.replicas),
                                                config.scaleFactor)), u))]
    ELSE IF BelowLower /\ review.replicas > config.minReplicasCount
    THEN [scale |-> TRUE,
          replicas |-> ToInt32(Ceil(FDiv(FromInt(review.replicas),
                                         config.scaleFactor)), u)]
    ELSE [scale |-> FALSE, replicas |-> review.replicas]
\* C7 as stated: when neither the fixed override (enabled with the annotation
\* present) nor the capacity mode applies and currentReplicas > 0, the reply is
\* the up-scale ceil(current * factor) capped at a set maximum, the down-scale
\* ceil(current / factor), or scale = false with replicas = currentReplicas.
C7_Original ==
    Decided /\ review.replicas > 0 /\ ~CapacityApplies(review)
        /\ ~(config.fixedReplicasOverrideEnabled /\ review.annotation.present)
        => \E u \in GoArch :
              reply.scale = StatedThreshold(u).scale
              /\ reply.replicas = StatedThreshold(u).replicas
\* C7 as amended: the same when the override is disabled, with the down-scale
\* and the unchanged result also capped at a set maximum, and scale = true
\* whenever that cap lowers the result.
C7_Threshold ==
    Decided /\ review.replicas > 0 /\ ~CapacityApplies(review)
        /\ ~config.fixedReplicasOverrideEnabled
        => \E u \in GoArch :
              /\ reply.replicas = CapMax(StatedThreshold(u).replicas)
              /\ reply.scale = (\/ StatedThreshold(u).scale
                                \/ reply.replicas # StatedThreshold(u).replicas)
C7_Witness ==
    /\ Decided /\ ~config.fixedReplicasOverrideEnabled /\ ~CapacityApplies(review)
    /\ review.replicas = 10 /\ review.allocated = 8
    /\ config.replicaUpperThreshold = Flt(7, 10) /\ config.scaleFactor = FromInt(2)
    /\ reply.scale /\ reply.replicas = 20

\* C8: a body that does not parse as JSON, and an override annotation that is
\* negative or no integer, each get a client-error (4xx) status and no decision.
RequestError ==
    \/ ~review.valid
    \/ /\ config.fixedReplicasOverrideEnabled /\ review.annotation.present
       /\ (Atoi(review.annotation.value).err \/ Atoi(review.annotation.value).neg)
C8_ClientError ==
    pc = "serving" /\ reply # NoReply /\ RequestError
        => reply.status >= 400 /\ reply.status <= 499 /\ ~reply.decided

\* C9: after getEnvVariables returns, replicaLowerThreshold is strictly below
\* replicaUpperThreshold / scaleFactor.
C9_Hysteresis ==
    pc = "serving"
        => FLt(config.replicaLowerThreshold,
               FDiv(config.replicaUpperThreshold, config.scaleFactor))

\* C10: in threshold mode, with the returned replicas sent back as the next
\* currentReplicas and allocatedReplicas constant, the exchange reaches a
\* replica count that every later decision leaves unchanged.
Settled == Decided /\ reply.replicas = review.replicas
C10_Converges ==
    <>[](pc = "exited" \/ config.fixedReplicasOverrideEnabled \/ Settled)
C10_Witness ==
    /\ Settled /\ UpScaled /\ prev.reply.replicas > prev.review.replicas
    /\ prev.review.allocated > 0

====
